---- MODULE Spec2Model ----
(***************************************************************************)
(* Smart-Fridge-System: inventory reconciliation and consumption tracking  *)
(* (src/inventory_manager.py) and the connection state machine            *)
(* (src/database.py).                                                      *)
(*                                                                         *)
(* Text is a sequence of one-character strings, so that str.lower() and    *)
(* the regular expression of _extract_quantity are computed character by   *)
(* character.  Python floats are modelled as exact rationals <<n, d>> in   *)
(* lowest terms with d > 0 (rounding of the float arithmetic is not        *)
(* modelled).  Time is in seconds.                                         *)
(***************************************************************************)
EXTENDS Integers, Sequences, FiniteSets, TLC

VARIABLES
    clock,                 \* wall clock read by datetime.now(), in seconds
    inventory,             \* users.inventory array of the logged-in user
    consumption_history,   \* users.consumption_history array of that user
    consumption_patterns,  \* InventoryManager.consumption_patterns
    pc,                    \* position inside save_items
    new_items,             \* save_items: parameter
    timestamp,             \* save_items: local timestamp (line 146)
    old_inventory,         \* save_items: local old_inventory (line 149)
    diff,                  \* save_items: local diff (line 152)
    upd_timestamp,         \* _update_consumption_patterns: local timestamp
    result,                \* value returned by the last save_items call
    nsaves,                \* number of save_items calls made so far
    patterns_at_call,      \* consumption_patterns when the running save_items
                           \* was called
    quantity_str,          \* _extract_quantity: argument
    quantity_val,          \* _extract_quantity: returned value
    threshold_date,        \* _get_smart_recommendations: local threshold_date
    recommendations,       \* value returned by _get_smart_recommendations
    state,                 \* DatabaseStateMachine._state
    client,                \* DatabaseStateMachine._client
    connection_error,      \* DatabaseStateMachine._connection_error
    lock,                  \* DatabaseStateMachine._lock: 0 or the holder
    thread,                \* per thread: position, running call, caught e
    returned,              \* the values get_client has returned so far
    invocations,           \* number of calls of the connection factory
    calls                  \* number of connect and get_client calls started

vars == <<clock, inventory, consumption_history, consumption_patterns, pc,
          new_items, timestamp, old_inventory, diff, upd_timestamp, result,
          nsaves, patterns_at_call, quantity_str, quantity_val,
          threshold_date, recommendations, state, client, connection_error,
          lock, thread, returned, invocations, calls>>

(***************************************************************************)
(* Bounds                                                                  *)
(***************************************************************************)
MaxStrLen == 4
DiffMaxOld == 2
DiffMaxNew == 2
MaxSaves == 3
NumThreads == 2
MaxCalls == 4

(***************************************************************************)
(* Rationals                                                               *)
(***************************************************************************)
RECURSIVE GCD(_, _)
GCD(a, b) == IF b = 0 THEN a ELSE GCD(b, a % b)

Abs(x) == IF x < 0 THEN -x ELSE x

Rat(n, d) ==
    LET g == GCD(Abs(n), Abs(d))
        s == IF d < 0 THEN -1 ELSE 1
    IN  <<(s * n) \div g, (s * d) \div g>>

RatSub(a, b) == Rat(a[1] * b[2] - b[1] * a[2], a[2] * b[2])
RatAbs(a) == <<Abs(a[1]), a[2]>>
\* a < b for denominators > 0, by integer parts and then the reciprocals of
\* the fractional parts, so that no product leaves the integer range
RECURSIVE RatLess(_, _)
RatLess(a, b) ==
    LET qa == a[1] \div a[2]
        qb == b[1] \div b[2]
        ra == a[1] % a[2]
        rb == b[1] % b[2]
    IN  IF qa # qb THEN qa < qb
        ELSE IF rb = 0 THEN FALSE
        ELSE IF ra = 0 THEN TRUE
        ELSE RatLess(<<b[2], rb>>, <<a[2], ra>>)
RatZero == <<0, 1>>
RatOne == <<1, 1>>

RECURSIVE Pow10(_)
Pow10(k) == IF k = 0 THEN 1 ELSE 10 * Pow10(k - 1)

RECURSIVE SumSeq(_)
SumSeq(s) == IF s = <<>> THEN 0 ELSE Head(s) + SumSeq(Tail(s))

(***************************************************************************)
(* Text                                                                    *)
(***************************************************************************)
Digits == {"0", "1", "2", "3", "4", "5", "6", "7", "8", "9"}

DigitVal(c) ==
    CASE c = "0" -> 0 [] c = "1" -> 1 [] c = "2" -> 2 [] c = "3" -> 3
      [] c = "4" -> 4 [] c = "5" -> 5 [] c = "6" -> 6 [] c = "7" -> 7
      [] c = "8" -> 8 [] c = "9" -> 9

\* str.lower() on one character (the capitals the model uses)
LowerChar(c) ==
    CASE c = "M" -> "m" [] c = "K" -> "k" [] c = "E" -> "e" [] c = "G" -> "g"
      [] c = "D" -> "d" [] c = "V" -> "v"
      [] OTHER -> c

\* str.lower()
Lower(s) == [i \in DOMAIN s |-> LowerChar(s[i])]

\* Python None, and a key that is missing from an item
NoneVal == <<"None">>

\* int(digits): value of a run of decimal digits, 0 for the empty run
RECURSIVE DecVal(_)
DecVal(s) ==
    IF s = <<>> THEN 0
    ELSE 10 * DecVal(SubSeq(s, 1, Len(s) - 1)) + DigitVal(s[Len(s)])

\* end of the longest run of digits that starts at position i (i - 1 if none)
RECURSIVE RunEnd(_, _)
RunEnd(s, i) ==
    IF i <= Len(s) /\ s[i] \in Digits THEN RunEnd(s, i + 1) ELSE i - 1

\* search_numeral with the pattern \d+ : the fraction is not matched
search_numeral_int(s) ==
    LET starts == {i \in 1..Len(s) : s[i] \in Digits}
    IN  IF starts = {} THEN <<0, 0>>
        ELSE LET p == CHOOSE i \in starts : \A j \in starts : i <= j
             IN  <<p, RunEnd(s, p)>>

\* re.search(r'(\d+\.?\d*)', s): <<start, end>> of the leftmost greedy match,
\* <<0, 0>> when there is none
search_numeral(s) ==
    LET starts == {i \in 1..Len(s) : s[i] \in Digits}
    IN  IF starts = {} THEN <<0, 0>>
        ELSE LET p == CHOOSE i \in starts : \A j \in starts : i <= j
                 e == RunEnd(s, p)
             IN  IF e < Len(s) /\ s[e + 1] = "."
                 THEN <<p, RunEnd(s, e + 2)>>
                 ELSE <<p, e>>

\* float(text) for a text of the shape \d+\.?\d*
float_of(t) ==
    LET dots == {i \in 1..Len(t) : t[i] = "."}
    IN  IF dots = {} THEN Rat(DecVal(t), 1)
        ELSE LET k == CHOOSE i \in dots : TRUE
                 ip == SubSeq(t, 1, k - 1)
                 fp == SubSeq(t, k + 1, Len(t))
             IN  Rat(DecVal(ip) * Pow10(Len(fp)) + DecVal(fp), Pow10(Len(fp)))

\* InventoryManager._extract_quantity
extract_quantity(q) ==
    IF q = NoneVal \/ q = <<>> THEN RatOne
    ELSE LET m == search_numeral(q)
         IN  IF m[1] = 0 THEN RatOne
             ELSE float_of(SubSeq(q, m[1], m[2]))

(***************************************************************************)
(* Items and snapshots                                                     *)
(***************************************************************************)
\* An inventory item: name and category are text; quantity is text, or
\* NoneVal when the item has no 'quantity' key (parse_inventory leaves it
\* out when the scan line has no "(x..." part).
Item(n, c, q) == [name |-> n, category |-> c, quantity |-> q]

\* dict.get('quantity', default)
get_quantity(item, default) ==
    IF item.quantity = NoneVal THEN default ELSE item.quantity

\* item_key with a case-sensitive category
item_key_case(item) == <<Lower(item.name), item.category>>

\* (item['name'].lower(), item['category'].lower())
item_key(item) == <<Lower(item.name), Lower(item.category)>>

keys_of(inv) == {item_key(inv[i]) : i \in DOMAIN inv}

\* items_by_key where the first item with a key is kept
items_by_key_first(inv) ==
    [k \in keys_of(inv) |->
        inv[CHOOSE i \in DOMAIN inv :
                /\ item_key(inv[i]) = k
                /\ \A j \in DOMAIN inv : item_key(inv[j]) = k => i <= j]]

\* {key: item for item in inv}: a later item replaces an earlier one
items_by_key(inv) ==
    [k \in keys_of(inv) |->
        inv[CHOOSE i \in DOMAIN inv :
                /\ item_key(inv[i]) = k
                /\ \A j \in DOMAIN inv : item_key(inv[j]) = k => j <= i]]

\* added_keys without the subtraction of the old keys
added_keys_all(ok, nk) == nk

\* line 40: set(new_items.keys()) - set(old_items.keys())
added_keys(ok, nk) == nk \ ok
\* line 44: set(old_items.keys()) - set(new_items.keys())
removed_keys(ok, nk) == ok \ nk
\* line 48: set(old_items.keys()) & set(new_items.keys())
common_keys(ok, nk) == ok \cap nk

\* all enumerations of a finite set
Perms(S) ==
    {f \in [1..Cardinality(S) -> S] :
        \A i, j \in 1..Cardinality(S) : f[i] = f[j] => i = j}

\* The three loops of _compute_inventory_diff iterate over Python sets, whose
\* order is not fixed: every order of each of the three key sets is possible.
iteration_orders(old, new) ==
    LET ok == keys_of(old)
        nk == keys_of(new)
    IN  {a \o r \o c : a \in Perms(nk \ ok), r \in Perms(ok \ nk),
                       c \in Perms(ok \cap nk)}

EmptyDiff == [added |-> <<>>, removed |-> <<>>, changed |-> <<>>,
              unchanged |-> <<>>]

\* classify_common comparing the quantity texts instead of their values
classify_common_raw(old_items, new_items_d, k) ==
    LET old_item == old_items[k]
        new_item == new_items_d[k]
        old_qty == extract_quantity(get_quantity(old_item, <<"1">>))
        new_qty == extract_quantity(get_quantity(new_item, <<"1">>))
    IN  IF old_item.quantity # new_item.quantity
        THEN [bucket |-> "changed",
              item |-> [name |-> new_item.name,
                        category |-> new_item.category,
                        quantity |-> new_item.quantity,
                        quantity_diff |-> RatSub(new_qty, old_qty)]]
        ELSE [bucket |-> "unchanged", item |-> new_item]

\* one pass of the loop of lines 48-61 over key k
classify_common(old_items, new_items_d, k) ==
    LET old_item == old_items[k]
        new_item == new_items_d[k]
        old_qty == extract_quantity(get_quantity(old_item, <<"1">>))
        new_qty == extract_quantity(get_quantity(new_item, <<"1">>))
    IN  IF old_qty # new_qty
        THEN [bucket |-> "changed",
              item |-> [name |-> new_item.name,
                        category |-> new_item.category,
                        quantity |-> new_item.quantity,
                        quantity_diff |-> RatSub(new_qty, old_qty)]]
        ELSE [bucket |-> "unchanged", item |-> new_item]

\* InventoryManager._compute_inventory_diff; ord is the iteration order of
\* the key sets
compute_inventory_diff(old, new, ord) ==
    LET old_items == items_by_key(old)
        new_items_d == items_by_key(new)
        ok == DOMAIN old_items
        nk == DOMAIN new_items_d
        oa == SelectSeq(ord, LAMBDA k : k \in added_keys(ok, nk))
        or == SelectSeq(ord, LAMBDA k : k \in removed_keys(ok, nk))
        oc == SelectSeq(ord, LAMBDA k : k \in common_keys(ok, nk))
        cl == [i \in 1..Len(oc) |-> classify_common(old_items, new_items_d, oc[i])]
        ch == SelectSeq(cl, LAMBDA x : x.bucket = "changed")
        un == SelectSeq(cl, LAMBDA x : x.bucket = "unchanged")
    IN  [added |-> [i \in 1..Len(oa) |-> new_items_d[oa[i]]],
         removed |-> [i \in 1..Len(or) |-> old_items[or[i]]],
         changed |-> [i \in 1..Len(ch) |-> ch[i].item],
         unchanged |-> [i \in 1..Len(un) |-> un[i].item]]

(***************************************************************************)
(* Consumption patterns                                                    *)
(***************************************************************************)
Day == 86400

\* a Python float stored in a history record
Float(r) == <<"float", r[1], r[2]>>

RatDiv(a, b) == Rat(a[1] * b[2], a[2] * b[1])

\* ensure_pattern with a default rate of one item per day
ensure_pattern_rate1(patterns, item_name, ts) ==
    IF item_name \in DOMAIN patterns THEN patterns
    ELSE patterns @@ (item_name :> [last_consumed |-> ts,
                                    consumption_rate |-> RatOne,
                                    history |-> <<>>])

\* lines 84-89 / 103-108: create the pattern entry when it is absent
ensure_pattern(patterns, item_name, ts) ==
    IF item_name \in DOMAIN patterns THEN patterns
    ELSE patterns @@ (item_name :> [last_consumed |-> ts,
                                    consumption_rate |-> RatZero,
                                    history |-> <<>>])

\* append_event that leaves last_consumed of an existing pattern alone
append_event_nolast(patterns, item_name, ts, action, qty) ==
    LET p1 == ensure_pattern(patterns, item_name, ts)
    IN  [p1 EXCEPT ![item_name] =
            [@ EXCEPT !.history = Append(@, [timestamp |-> ts,
                                             action |-> action,
                                             quantity |-> qty])]]

\* history.append(record); last_consumed = ts
append_event(patterns, item_name, ts, action, qty) ==
    LET p1 == ensure_pattern(patterns, item_name, ts)
    IN  [p1 EXCEPT ![item_name] =
            [@ EXCEPT !.history = Append(@, [timestamp |-> ts,
                                             action |-> action,
                                             quantity |-> qty]),
                      !.last_consumed = ts]]

\* track_removed where the record replaces the history instead of joining it
RECURSIVE track_removed_latest(_, _, _)
track_removed_latest(patterns, removed, ts) ==
    IF removed = <<>> THEN patterns
    ELSE LET k == Lower(Head(removed).name)
             p1 == ensure_pattern(patterns, k, ts)
         IN  track_removed_latest(
                 [p1 EXCEPT ![k] =
                     [@ EXCEPT !.history =
                                   <<[timestamp |-> ts, action |-> "consumed",
                                      quantity |-> get_quantity(Head(removed),
                                                                <<"1">>)]>>,
                               !.last_consumed = ts]],
                 Tail(removed), ts)

\* track_removed with one pattern for every (name, category)
RECURSIVE track_removed_by_category(_, _, _)
track_removed_by_category(patterns, removed, ts) ==
    IF removed = <<>> THEN patterns
    ELSE track_removed_by_category(
             append_event(patterns,
                          Lower(Head(removed).name) \o <<"/">> \o
                              Lower(Head(removed).category),
                          ts, "consumed",
                          get_quantity(Head(removed), <<"1">>)),
             Tail(removed), ts)

\* lines 82-97: the loop over diff['removed']
RECURSIVE track_removed(_, _, _)
track_removed(patterns, removed, ts) ==
    IF removed = <<>> THEN patterns
    ELSE track_removed(
             append_event(patterns, Lower(Head(removed).name), ts, "consumed",
                          get_quantity(Head(removed), <<"1">>)),
             Tail(removed), ts)

\* track_changed without the test quantity_diff < 0
RECURSIVE track_changed_all(_, _, _)
track_changed_all(patterns, changed, ts) ==
    IF changed = <<>> THEN patterns
    ELSE LET item == Head(changed)
         IN  track_changed_all(
                 append_event(patterns, Lower(item.name), ts,
                              "partial_consumed",
                              Float(RatAbs(item.quantity_diff))),
                 Tail(changed), ts)

\* lines 100-116 (and 233-250): the loop over diff['changed']
RECURSIVE track_changed(_, _, _)
track_changed(patterns, changed, ts) ==
    IF changed = <<>> THEN patterns
    ELSE LET item == Head(changed)
         IN  track_changed(
                 IF RatLess(item.quantity_diff, RatZero)
                 THEN append_event(patterns, Lower(item.name), ts,
                                   "partial_consumed",
                                   Float(RatAbs(item.quantity_diff)))
                 ELSE patterns,
                 Tail(changed), ts)

\* time_diffs where a gap that is not positive counts as one second
time_diffs_clamped(history) ==
    [i \in 1..(Len(history) - 1) |->
        IF history[i + 1].timestamp > history[i].timestamp
        THEN history[i + 1].timestamp - history[i].timestamp
        ELSE 1]

\* time_diffs with the test delta >= 0
time_diffs_nonneg(history) ==
    LET deltas == [i \in 1..(Len(history) - 1) |->
                      history[i + 1].timestamp - history[i].timestamp]
    IN  SelectSeq(deltas, LAMBDA d : d >= 0)

\* lines 122-127: the positive gaps between consecutive history records
time_diffs(history) ==
    LET deltas == [i \in 1..(Len(history) - 1) |->
                      history[i + 1].timestamp - history[i].timestamp]
    IN  SelectSeq(deltas, LAMBDA d : d > 0)

\* lines 120-132 for one pattern
recompute_rate(pattern) ==
    IF Len(pattern.history) >= 2
    THEN LET td == time_diffs(pattern.history)
         IN  IF td # <<>>
             THEN LET avg_hours_between == Rat(SumSeq(td), Len(td) * 3600)
                  IN  IF RatLess(RatZero, avg_hours_between)
                      THEN [pattern EXCEPT !.consumption_rate =
                               RatDiv(<<24, 1>>, avg_hours_between)]
                      ELSE pattern
             ELSE pattern
    ELSE pattern

\* lines 119-132: the loop over all patterns
calculate_rates(patterns) ==
    [k \in DOMAIN patterns |-> recompute_rate(patterns[k])]

\* InventoryManager._update_consumption_patterns, with timestamp = ts
update_consumption_patterns(patterns, d, ts) ==
    calculate_rates(track_changed(track_removed(patterns, d.removed, ts),
                                  d.changed, ts))

(***************************************************************************)
(* The user document: inventory and consumption_history                    *)
(***************************************************************************)
FreshDays == 7

\* ord(c) for the characters of names and categories
Ord(c) ==
    CASE c = "D" -> 68 [] c = "E" -> 69 [] c = "G" -> 71 [] c = "K" -> 75
      [] c = "M" -> 77 [] c = "V" -> 86 [] c = "d" -> 100 [] c = "e" -> 101
      [] c = "g" -> 103 [] c = "k" -> 107 [] c = "m" -> 109 [] c = "v" -> 118
      [] OTHER -> 0

\* a < b for Python str
RECURSIVE TextLess(_, _)
TextLess(a, b) ==
    IF b = <<>> THEN FALSE
    ELSE IF a = <<>> THEN TRUE
    ELSE IF Ord(Head(a)) # Ord(Head(b)) THEN Ord(Head(a)) < Ord(Head(b))
    ELSE TextLess(Tail(a), Tail(b))

\* key(x) < key(y) for key = (category, name)
sort_key_less(x, y) ==
    \/ TextLess(x.category, y.category)
    \/ x.category = y.category /\ TextLess(x.name, y.name)

\* insert x behind the elements that are not greater (stable)
RECURSIVE sorted_insert(_, _)
sorted_insert(s, x) ==
    IF s = <<>> THEN <<x>>
    ELSE IF sort_key_less(x, Head(s)) THEN <<x>> \o s
    ELSE <<Head(s)>> \o sorted_insert(Tail(s), x)

\* sorted(items, key=lambda x: (category, name))
RECURSIVE sorted_items(_)
sorted_items(s) ==
    IF s = <<>> THEN <<>>
    ELSE sorted_insert(sorted_items(SubSeq(s, 1, Len(s) - 1)), s[Len(s)])

\* get_current_inventory with the test last_seen > one_week_ago
get_current_inventory_strict(inv, now) ==
    LET one_week_ago == now - FreshDays * Day
    IN  sorted_items(SelectSeq(inv, LAMBDA it : it.last_seen > one_week_ago))

\* InventoryManager.get_current_inventory, reading the clock at now
get_current_inventory(inv, now) ==
    LET one_week_ago == now - FreshDays * Day
    IN  sorted_items(SelectSeq(inv, LAMBDA it : it.last_seen >= one_week_ago))

ZeroResult == [inserted |-> 0, updated |-> 0, removed |-> 0]

\* item.get('quantity', 1): the int 1 is stored as the text str(1)
stored_quantity(item) == get_quantity(item, <<"1">>)

\* first element whose name matches the pattern ^name$ with option i
first_name_match(inv, item) ==
    CHOOSE i \in DOMAIN inv :
        /\ Lower(inv[i].name) = Lower(item.name)
        /\ \A j \in DOMAIN inv :
              Lower(inv[j].name) = Lower(item.name) => i <= j

\* first element whose category matches the pattern ^category$ with option i
first_category_match(inv, item) ==
    CHOOSE i \in DOMAIN inv :
        /\ Lower(inv[i].category) = Lower(item.category)
        /\ \A j \in DOMAIN inv :
              Lower(inv[j].category) = Lower(item.category) => i <= j

\* lines 159-205 for one added item.  doc = [inv, hist, res].  The filter
\* tests inventory.name and inventory.category separately, so it matches when
\* some element has the name and some element has the category; MongoDB
\* leaves open which of the two matched positions the positional $ takes.
add_item_outcomes(doc, item, ts) ==
    LET name_match(e) == Lower(e.name) = Lower(item.name)
        cat_match(e) == Lower(e.category) = Lower(item.category)
        existing == /\ \E i \in DOMAIN doc.inv : name_match(doc.inv[i])
                    /\ \E i \in DOMAIN doc.inv : cat_match(doc.inv[i])
    IN  IF existing
        THEN {LET inv2 == [doc.inv EXCEPT ![p] =
                              [@ EXCEPT !.quantity = stored_quantity(item),
                                        !.last_seen = ts]]
              IN  [doc EXCEPT !.inv = inv2,
                              !.res.updated =
                                  IF inv2 # doc.inv THEN @ + 1 ELSE @]
              : p \in {first_name_match(doc.inv, item),
                       first_category_match(doc.inv, item)}}
        ELSE {[doc EXCEPT !.inv = Append(@, [name |-> item.name,
                                             category |-> item.category,
                                             quantity |-> stored_quantity(item),
                                             last_seen |-> ts]),
                          !.res.inserted = @ + 1]}

\* remove_item_outcomes without the $push of the consumption record
remove_item_outcomes_nopush(doc, item, ts) ==
    {[doc EXCEPT !.inv = SelectSeq(@, LAMBDA e : ~(e.name = item.name /\
                                                   e.category = item.category)),
                 !.res.removed = @ + 1]}

\* lines 208-230 for one removed item: $pull by exact name and category,
\* $push of the consumption record
remove_item_outcomes(doc, item, ts) ==
    {[doc EXCEPT !.inv = SelectSeq(@, LAMBDA e : ~(e.name = item.name /\
                                                   e.category = item.category)),
                 !.hist = Append(@, [item_name |-> item.name,
                                     category |-> item.category,
                                     action |-> "consumed",
                                     timestamp |-> ts]),
                 !.res.removed = @ + 1]}

\* the database operations of one save, in program order
write_ops(d) ==
    [i \in 1..Len(d.added) |-> [kind |-> "add", item |-> d.added[i]]] \o
    [i \in 1..Len(d.removed) |-> [kind |-> "remove", item |-> d.removed[i]]]

\* the documents that the first k operations of ops can produce
RECURSIVE write_outcomes(_, _, _, _)
write_outcomes(doc, ops, k, ts) ==
    IF k = 0 \/ ops = <<>> THEN {doc}
    ELSE UNION {write_outcomes(d2, Tail(ops), k - 1, ts) :
                   d2 \in IF Head(ops).kind = "add"
                          THEN add_item_outcomes(doc, Head(ops).item, ts)
                          ELSE remove_item_outcomes(doc, Head(ops).item, ts)}

(***************************************************************************)
(* Smart recommendations                                                   *)
(***************************************************************************)
WindowDays == 7
RecentDays == 3

\* the literals 0.5 and 0.3
Half == <<1, 2>>
HighRate == <<3, 10>>

\* consumed_in_window without the test on the timestamp
consumed_in_window_all(hist, threshold) ==
    SelectSeq(hist, LAMBDA r : r.action = "consumed")

\* lines 1151-1154: the history records of the window with action consumed
consumed_in_window(hist, threshold) ==
    SelectSeq(hist, LAMBDA r : r.timestamp >= threshold /\ r.action = "consumed")

\* lines 1156-1159: the _id values of the groups; $group compares the texts
\* as they are stored
group_ids(recs) ==
    {[name |-> recs[i].item_name, category |-> recs[i].category] :
        i \in DOMAIN recs}

MaxOf(S) == CHOOSE x \in S : \A y \in S : y <= x

\* lines 1155-1162: the output document of $group for one _id
consumed_group(recs, id) ==
    LET members == {i \in DOMAIN recs : /\ recs[i].item_name = id.name
                                        /\ recs[i].category = id.category}
    IN  [name |-> id.name, category |-> id.category,
         count |-> Cardinality(members),
         last_consumed |-> MaxOf({recs[i].timestamp : i \in members})]

\* $group does not fix the order of its output documents
group_orders(hist, threshold) ==
    Perms(group_ids(consumed_in_window(hist, threshold)))

\* in_stock with the test current_qty >= 0.5
in_stock_half(inventory_items, key) ==
    /\ key \in DOMAIN inventory_items
    /\ ~RatLess(extract_quantity(get_quantity(inventory_items[key], <<"1">>)),
                Half)

\* lines 1171-1178: the ingredient is in the inventory with a quantity > 0.5
in_stock(inventory_items, key) ==
    /\ key \in DOMAIN inventory_items
    /\ RatLess(Half,
               extract_quantity(get_quantity(inventory_items[key], <<"1">>)))

\* line 1183: timedelta.days of now - last_consumed (floor division)
days_since(now, last_consumed) == (now - last_consumed) \div Day

\* f"{x:.1f}": the number of tenths nearest to x, a tie going to the even one
format_1f(x) ==
    LET n == 10 * x[1]
        q == n \div x[2]
        r2 == 2 * (n % x[2])
    IN  IF r2 > x[2] \/ (r2 = x[2] /\ q % 2 = 1) THEN q + 1 ELSE q

\* urgency_of with the test days_since_last <= 3
urgency_of_days3(consumption_rate, days_since_last) ==
    IF RatLess(HighRate, consumption_rate)
    THEN [urgency |-> "High",
          reason |-> [text |-> "Frequently used",
                      per_day |-> <<format_1f(consumption_rate)>>]]
    ELSE IF days_since_last <= RecentDays
    THEN [urgency |-> "Medium",
          reason |-> [text |-> "Recently consumed", per_day |-> <<>>]]
    ELSE [urgency |-> "Low",
          reason |-> [text |-> "Occasionally used", per_day |-> <<>>]]

\* lines 1186-1194
urgency_of(consumption_rate, days_since_last) ==
    IF RatLess(HighRate, consumption_rate)
    THEN [urgency |-> "High",
          reason |-> [text |-> "Frequently used",
                      per_day |-> <<format_1f(consumption_rate)>>]]
    ELSE IF days_since_last < RecentDays
    THEN [urgency |-> "Medium",
          reason |-> [text |-> "Recently consumed", per_day |-> <<>>]]
    ELSE [urgency |-> "Low",
          reason |-> [text |-> "Occasionally used", per_day |-> <<>>]]

\* lines 1181-1203: the recommendation for one group
recommendation_for(group, patterns, now) ==
    LET k == Lower(group.name)
        consumption_rate ==
            IF k \in DOMAIN patterns THEN patterns[k].consumption_rate
            ELSE RatZero
        u == urgency_of(consumption_rate, days_since(now, group.last_consumed))
    IN  [name |-> group.name, category |-> group.category,
         reason |-> u.reason, urgency |-> u.urgency,
         last_consumed |-> group.last_consumed,
         consumption_rate |-> consumption_rate]

\* lines 1166-1203: the loop over the groups in the order ord
RECURSIVE collect_recommendations(_, _, _, _, _)
collect_recommendations(ord, recs, inventory_items, patterns, now) ==
    IF ord = <<>> THEN <<>>
    ELSE LET group == consumed_group(recs, Head(ord))
             rest == collect_recommendations(Tail(ord), recs, inventory_items,
                                             patterns, now)
         IN  IF in_stock(inventory_items,
                         <<Lower(group.name), Lower(group.category)>>)
             THEN rest
             ELSE <<recommendation_for(group, patterns, now)>> \o rest

\* line 1206
urgency_rank(x) ==
    IF x.urgency = "High" THEN 0 ELSE IF x.urgency = "Medium" THEN 1 ELSE 2

\* rec_key_less comparing the rates in increasing order
rec_key_less_asc(x, y) ==
    \/ urgency_rank(x) < urgency_rank(y)
    \/ /\ urgency_rank(x) = urgency_rank(y)
       /\ RatLess(x.consumption_rate, y.consumption_rate)

\* key(x) < key(y) for key = (urgency rank, -consumption_rate)
rec_key_less(x, y) ==
    \/ urgency_rank(x) < urgency_rank(y)
    \/ /\ urgency_rank(x) = urgency_rank(y)
       /\ RatLess(y.consumption_rate, x.consumption_rate)

RECURSIVE rec_sorted_insert(_, _)
rec_sorted_insert(s, x) ==
    IF s = <<>> THEN <<x>>
    ELSE IF rec_key_less(x, Head(s)) THEN <<x>> \o s
    ELSE <<Head(s)>> \o rec_sorted_insert(Tail(s), x)

\* lines 1205-1208: sorted(recommendations, key=...), a stable sort
RECURSIVE sorted_recommendations(_)
sorted_recommendations(s) ==
    IF s = <<>> THEN <<>>
    ELSE rec_sorted_insert(sorted_recommendations(SubSeq(s, 1, Len(s) - 1)),
                           s[Len(s)])

\* InventoryManager._get_smart_recommendations: threshold is the clock read
\* of line 1141 minus the window, now the clock read of line 1183, ord the
\* order of the groups
get_smart_recommendations(current, hist, patterns, threshold, now, ord) ==
    sorted_recommendations(
        collect_recommendations(ord, consumed_in_window(hist, threshold),
                                items_by_key(current), patterns, now))

(***************************************************************************)
(* Inputs                                                                  *)
(***************************************************************************)
SeqsUpTo(S, n) == UNION {[1..k -> S] : k \in 0..n}

Milk == <<"m", "k">>
Egg == <<"e", "g">>
Dairy == <<"d">>

\* snapshots handed to save_items: names are lower case (both callers pass
\* them through normalize_ingredient_name)
Snapshots ==
    {<<Item(Milk, Dairy, <<"1">>)>>,
     <<Item(Milk, Dairy, <<"1">>), Item(Egg, Dairy, <<"1">>)>>,
     <<Item(Milk, Dairy, <<"2">>), Item(Egg, Dairy, <<"2">>)>>}

StoredItem(n, c, q, t) ==
    [name |-> n, category |-> c, quantity |-> q, last_seen |-> t]

\* the inventory a user document can hold when the process starts
InitInventories ==
    {<<>>,
     <<StoredItem(Milk, Dairy, <<"2">>, 0)>>,
     <<StoredItem(Milk, Dairy, <<"2">>, 0), StoredItem(Egg, Dairy, <<"1">>, 0)>>}

\* seconds that can pass between two clock reads of one call
Skew == {0, 1}
\* seconds that can pass between two calls
Elapsed == {0, Day}

NoTime == 0

(***************************************************************************)
(* DatabaseStateMachine: fields                                            *)
(***************************************************************************)
Threads == 1..NumThreads

MongoClient(n) == <<"MongoClient", n>>

NoCall == [pc |-> "idle", op |-> "none", e |-> NoneVal]

\* main.py lines 42-43: the application has connected before it serves a
\* request
db_connected ==
    /\ state = "CONNECTED"
    /\ client = MongoClient(1)
    /\ connection_error = NoneVal
    /\ lock = 0
    /\ thread = [t \in Threads |-> NoCall]
    /\ returned = {}
    /\ invocations = 1
    /\ calls = 1

(***************************************************************************)
(* save_items                                                              *)
(***************************************************************************)
Init ==
    /\ clock = 0
    /\ inventory \in InitInventories
    /\ consumption_history = <<>>
    /\ consumption_patterns = <<>>
    /\ pc = "idle"
    /\ new_items = <<>>
    /\ timestamp = NoTime
    /\ old_inventory = <<>>
    /\ diff = EmptyDiff
    /\ upd_timestamp = NoTime
    /\ result = ZeroResult
    /\ nsaves = 0
    /\ patterns_at_call = <<>>
    /\ quantity_str = NoneVal
    /\ quantity_val = RatOne
    /\ threshold_date = NoTime
    /\ recommendations = <<>>
    /\ db_connected

qty_unchanged == UNCHANGED <<quantity_str, quantity_val>>

db_unchanged ==
    UNCHANGED <<state, client, connection_error, lock, thread, returned,
                invocations, calls>>

rec_unchanged == UNCHANGED <<threshold_date, recommendations>>

\* save_items, lines 136-153: read the clock, fetch the old inventory,
\* compute the diff and update the patterns
save_items_diff(snapshots, elapsed, skew) ==
    /\ pc = "idle"
    /\ nsaves < MaxSaves
    /\ \E items \in snapshots, e \in elapsed, s \in skew :
          LET ts == clock + e
              old == get_current_inventory(inventory, ts)
              uts == ts + s
          IN  \E ord \in iteration_orders(old, items) :
                 LET d == compute_inventory_diff(old, items, ord)
                 IN  /\ new_items' = items
                     /\ timestamp' = ts
                     /\ old_inventory' = old
                     /\ diff' = d
                     /\ upd_timestamp' = uts
                     /\ clock' = uts
                     /\ consumption_patterns' =
                            update_consumption_patterns(consumption_patterns,
                                                        d, uts)
    /\ pc' = "write"
    /\ patterns_at_call' = consumption_patterns
    /\ nsaves' = nsaves + 1
    /\ UNCHANGED <<inventory, consumption_history, result>>
    /\ qty_unchanged
    /\ db_unchanged
    /\ rec_unchanged

SaveItemsDiff == save_items_diff(Snapshots, Elapsed, Skew)

\* save_items without the early return of lines 136-137: the empty list is
\* diffed and written like any snapshot
SaveItemsEmptyDiffed == save_items_diff({<<>>}, Elapsed, Skew)

\* save_items with an empty list: lines 136-137
SaveItemsEmpty ==
    /\ pc = "idle"
    /\ nsaves < MaxSaves
    /\ nsaves' = nsaves + 1
    /\ result' = ZeroResult
    /\ UNCHANGED <<clock, inventory, consumption_history, consumption_patterns,
                   pc, new_items, timestamp, old_inventory, diff,
                   upd_timestamp, patterns_at_call>>
    /\ qty_unchanged
    /\ db_unchanged
    /\ rec_unchanged

start_doc == [inv |-> inventory, hist |-> consumption_history,
              res |-> ZeroResult]

return_locals ==
    /\ pc' = "idle"
    /\ new_items' = <<>>
    /\ timestamp' = NoTime
    /\ old_inventory' = <<>>
    /\ diff' = EmptyDiff
    /\ upd_timestamp' = NoTime
    /\ patterns_at_call' = <<>>

\* save_items, lines 155-255: every database write succeeds
SaveItemsWrite ==
    /\ pc = "write"
    /\ \E doc \in write_outcomes(start_doc, write_ops(diff),
                                 Len(write_ops(diff)), timestamp) :
          /\ inventory' = doc.inv
          /\ consumption_history' = doc.hist
          /\ result' = doc.res
    /\ consumption_patterns' =
           track_changed(consumption_patterns, diff.changed, timestamp)
    /\ return_locals
    /\ UNCHANGED <<clock, nsaves>>
    /\ qty_unchanged
    /\ db_unchanged
    /\ rec_unchanged

\* SaveItemsFail undoing the call: the documents and the pattern table are
\* put back as they were when save_items was entered
SaveItemsFailRollback ==
    /\ pc = "write"
    /\ write_ops(diff) # <<>>
    /\ consumption_patterns' = patterns_at_call
    /\ result' = ZeroResult
    /\ return_locals
    /\ UNCHANGED <<clock, nsaves, inventory, consumption_history>>
    /\ qty_unchanged
    /\ db_unchanged
    /\ rec_unchanged

\* save_items, lines 155-262: a database operation raises after k writes
\* were applied; the handler returns the zero result
SaveItemsFail ==
    /\ pc = "write"
    /\ \E k \in 0..(Len(write_ops(diff)) - 1) :
          \E doc \in write_outcomes(start_doc, write_ops(diff), k, timestamp) :
             /\ inventory' = doc.inv
             /\ consumption_history' = doc.hist
    /\ result' = ZeroResult
    /\ return_locals
    /\ UNCHANGED <<clock, nsaves, consumption_patterns>>
    /\ qty_unchanged
    /\ db_unchanged
    /\ rec_unchanged

Next == SaveItemsEmpty \/ SaveItemsDiff \/ SaveItemsWrite \/ SaveItemsFail

Spec == Init /\ [][Next]_vars

(***************************************************************************)
(* _extract_quantity as a function of its argument                         *)
(***************************************************************************)
QtyChars == {"0", "2", "5", ".", "b", " "}

\* the texts of the documented examples
TwoBottles == <<"2", " ", "b", "o", "t", "t", "l", "e", "s">>
HalfKg == <<"0", ".", "5", " ", "k", "g">>
Abc == <<"a", "b", "c">>

QtyInputs == SeqsUpTo(QtyChars, MaxStrLen) \cup {NoneVal, TwoBottles, HalfKg, Abc}

idle_save_state ==
    /\ clock = 0
    /\ inventory = <<>>
    /\ consumption_history = <<>>
    /\ consumption_patterns = <<>>
    /\ timestamp = NoTime
    /\ upd_timestamp = NoTime
    /\ result = ZeroResult
    /\ nsaves = 0
    /\ patterns_at_call = <<>>
    /\ threshold_date = NoTime
    /\ recommendations = <<>>
    /\ db_connected

save_unchanged ==
    UNCHANGED <<clock, inventory, consumption_history, consumption_patterns,
                timestamp, upd_timestamp, result, nsaves, patterns_at_call,
                threshold_date, recommendations>>

InitQty ==
    /\ idle_save_state
    /\ pc = "extract"
    /\ new_items = <<>>
    /\ old_inventory = <<>>
    /\ diff = EmptyDiff
    /\ quantity_str \in QtyInputs
    /\ quantity_val = NoneVal

ExtractQuantity ==
    /\ pc = "extract"
    /\ quantity_val' = extract_quantity(quantity_str)
    /\ pc' = "extracted"
    /\ UNCHANGED <<quantity_str, new_items, old_inventory, diff>>
    /\ save_unchanged
    /\ db_unchanged

NextQty == ExtractQuantity

SpecQty == InitQty /\ [][NextQty]_vars

(***************************************************************************)
(* _compute_inventory_diff as a function of its arguments                  *)
(***************************************************************************)
DiffItems ==
    {Item(Milk, Dairy, <<"1">>), Item(<<"M", "k">>, <<"D">>, NoneVal),
     Item(Milk, Dairy, <<"0", ".", "5">>), Item(Egg, Dairy, <<"1">>),
     Item(Egg, Dairy, <<"0", ".", "5">>), Item(Milk, <<"v">>, <<"1">>)}

InitDiff ==
    /\ idle_save_state
    /\ pc = "diff"
    /\ old_inventory \in SeqsUpTo(DiffItems, DiffMaxOld)
    /\ new_items \in SeqsUpTo(DiffItems, DiffMaxNew)
    /\ diff = EmptyDiff
    /\ quantity_str = NoneVal
    /\ quantity_val = RatOne

ComputeDiff ==
    /\ pc = "diff"
    /\ \E ord \in iteration_orders(old_inventory, new_items) :
          diff' = compute_inventory_diff(old_inventory, new_items, ord)
    /\ pc' = "diffed"
    /\ UNCHANGED <<old_inventory, new_items, quantity_str, quantity_val>>
    /\ save_unchanged
    /\ db_unchanged

NextDiff == ComputeDiff

SpecDiff == InitDiff /\ [][NextDiff]_vars

(***************************************************************************)
(* _get_smart_recommendations as a function of the stored state            *)
(***************************************************************************)
MaxHist == 3

Veg == <<"v", "g">>

\* the clock at the request
RecNow == 20 * Day

ConsumedRecord(n, c, t) ==
    [item_name |-> n, category |-> c, action |-> "consumed", timestamp |-> t]

RecRecords ==
    {ConsumedRecord(Milk, Dairy, RecNow - Day),
     ConsumedRecord(Milk, Dairy, RecNow - 3 * Day + 1),
     ConsumedRecord(Milk, <<"D">>, RecNow - 2 * Day),
     ConsumedRecord(Egg, Dairy, RecNow - Day),
     ConsumedRecord(Egg, Dairy, RecNow - 7 * Day),
     ConsumedRecord(Veg, Dairy, RecNow - 5 * Day),
     ConsumedRecord(Veg, Dairy, RecNow - 7 * Day - 1)}

\* persisted histories: save_items pushes the records in the order of its
\* clock reads
RecHistories ==
    {h \in SeqsUpTo(RecRecords, MaxHist) :
        \A i \in 1..(Len(h) - 1) : h[i].timestamp <= h[i + 1].timestamp}

ConsumedEvent(t) == [timestamp |-> t, action |-> "consumed", quantity |-> <<"1">>]

\* the pattern entry that _update_consumption_patterns builds from history h
pattern_with(h) ==
    recompute_rate([last_consumed |-> h[Len(h)].timestamp,
                    consumption_rate |-> RatZero, history |-> h])

\* pattern tables: the empty one; milk at 0.5/day, egg and veg at 0.1/day;
\* milk with one event (rate 0), egg at 0.3/day and veg at 1/day
RecPatterns ==
    << <<>>,
       (Milk :> pattern_with(<<ConsumedEvent(RecNow - 3 * Day),
                               ConsumedEvent(RecNow - Day)>>)) @@
       (Egg :> pattern_with(<<ConsumedEvent(RecNow - 11 * Day),
                              ConsumedEvent(RecNow - Day)>>)) @@
       (Veg :> pattern_with(<<ConsumedEvent(RecNow - 15 * Day),
                              ConsumedEvent(RecNow - 5 * Day)>>)),
       (Milk :> pattern_with(<<ConsumedEvent(RecNow - Day)>>)) @@
       (Egg :> pattern_with(<<ConsumedEvent(RecNow - Day - 288000),
                              ConsumedEvent(RecNow - Day)>>)) @@
       (Veg :> pattern_with(<<ConsumedEvent(RecNow - 6 * Day),
                              ConsumedEvent(RecNow - 5 * Day)>>)) >>

RecInventories ==
    {<<>>,
     <<StoredItem(Milk, Dairy, <<"0", ".", "6">>, RecNow)>>,
     <<StoredItem(Milk, Dairy, <<"0", ".", "4">>, RecNow)>>,
     <<StoredItem(Egg, Dairy, <<"0", ".", "5">>, RecNow),
       StoredItem(Milk, <<"D">>, <<"2">>, RecNow)>>,
     <<StoredItem(Milk, Dairy, <<"2">>, RecNow - 8 * Day)>>}

InitRec ==
    /\ clock = RecNow
    /\ inventory \in RecInventories
    /\ consumption_history \in RecHistories
    /\ \E i \in DOMAIN RecPatterns : consumption_patterns = RecPatterns[i]
    /\ pc = "recommend"
    /\ new_items = <<>>
    /\ timestamp = NoTime
    /\ old_inventory = <<>>
    /\ diff = EmptyDiff
    /\ upd_timestamp = NoTime
    /\ result = ZeroResult
    /\ nsaves = 0
    /\ patterns_at_call = <<>>
    /\ quantity_str = NoneVal
    /\ quantity_val = RatOne
    /\ threshold_date = NoTime
    /\ recommendations = <<>>
    /\ db_connected

\* generate_grocery_list, lines 1051 and 1090: the current inventory is read
\* and handed to _get_smart_recommendations, which reads the clock for the
\* threshold (line 1141) and again for days_since_last (line 1183)
GetSmartRecommendations ==
    /\ pc = "recommend"
    /\ \E s \in Skew :
          LET current_inventory == get_current_inventory(inventory, clock)
              threshold == clock - WindowDays * Day
          IN  \E ord \in group_orders(consumption_history, threshold) :
                 /\ recommendations' =
                        get_smart_recommendations(current_inventory,
                                                  consumption_history,
                                                  consumption_patterns,
                                                  threshold, clock + s, ord)
                 /\ threshold_date' = threshold
                 /\ clock' = clock + s
    /\ pc' = "recommended"
    /\ UNCHANGED <<inventory, consumption_history, consumption_patterns,
                   new_items, timestamp, old_inventory, diff, upd_timestamp,
                   result, nsaves, patterns_at_call>>
    /\ qty_unchanged
    /\ db_unchanged

NextRec == GetSmartRecommendations

SpecRec == InitRec /\ [][NextRec]_vars

(***************************************************************************)
(* get_current_inventory as a function of the stored inventory             *)
(***************************************************************************)
MaxStored == 3

\* the clock before the read
InvNow == 10 * Day

\* stored items seen now, 7 days ago to the second, and a second before and
\* after that
StoredInputs ==
    {StoredItem(Milk, Dairy, <<"1">>, InvNow),
     StoredItem(Milk, Dairy, <<"2">>, InvNow - FreshDays * Day),
     StoredItem(Egg, Dairy, <<"1">>, InvNow - FreshDays * Day - 1),
     StoredItem(Egg, <<"D">>, <<"1">>, InvNow - FreshDays * Day + 1)}

InitInv ==
    /\ clock = InvNow
    /\ inventory \in SeqsUpTo(StoredInputs, MaxStored)
    /\ consumption_history = <<>>
    /\ consumption_patterns = <<>>
    /\ pc = "read"
    /\ new_items = <<>>
    /\ timestamp = NoTime
    /\ old_inventory = <<>>
    /\ diff = EmptyDiff
    /\ upd_timestamp = NoTime
    /\ result = ZeroResult
    /\ nsaves = 0
    /\ patterns_at_call = <<>>
    /\ quantity_str = NoneVal
    /\ quantity_val = RatOne
    /\ threshold_date = NoTime
    /\ recommendations = <<>>
    /\ db_connected

\* old_inventory = self.get_current_inventory() (line 149); the clock is read
\* at line 279
GetCurrentInventory ==
    /\ pc = "read"
    /\ \E s \in Skew :
          /\ clock' = clock + s
          /\ old_inventory' = get_current_inventory(inventory, clock + s)
    /\ pc' = "read_done"
    /\ UNCHANGED <<inventory, consumption_history, consumption_patterns,
                   new_items, timestamp, diff, upd_timestamp, result, nsaves,
                   patterns_at_call>>
    /\ qty_unchanged
    /\ db_unchanged
    /\ rec_unchanged

NextInv == GetCurrentInventory

SpecInv == InitInv /\ [][NextInv]_vars

(***************************************************************************)
(* Scans and manual edits days apart, then a grocery list: the category of *)
(* an item is free text (parse_inventory keeps the heading of the vision   *)
(* output, add_item_manually the typed text), so the same ingredient can   *)
(* arrive under categories that differ in letter case or altogether        *)
(***************************************************************************)
Produce == <<"v">>

\* every snapshot holds the eggs
ScanSnapshots ==
    {<<Item(Egg, Dairy, <<"1">>)>>,
     <<Item(Milk, Dairy, <<"1">>), Item(Egg, Dairy, <<"1">>)>>,
     <<Item(Milk, Produce, <<"1">>), Item(Egg, Dairy, <<"1">>)>>}

ScanInventories ==
    {<<>>,
     <<StoredItem(Milk, <<"D">>, <<"1">>, 0)>>,
     <<StoredItem(Milk, Dairy, <<"1">>, 0),
       StoredItem(Milk, Produce, <<"1">>, 0),
       StoredItem(Egg, Dairy, <<"1">>, 0)>>}

\* seconds between two calls
ScanElapsed == {3 * Day}

InitScan ==
    /\ clock = 0
    /\ inventory \in ScanInventories
    /\ consumption_history = <<>>
    /\ consumption_patterns = <<>>
    /\ pc = "idle"
    /\ new_items = <<>>
    /\ timestamp = NoTime
    /\ old_inventory = <<>>
    /\ diff = EmptyDiff
    /\ upd_timestamp = NoTime
    /\ result = ZeroResult
    /\ nsaves = 0
    /\ patterns_at_call = <<>>
    /\ quantity_str = NoneVal
    /\ quantity_val = RatOne
    /\ threshold_date = NoTime
    /\ recommendations = <<>>
    /\ db_connected

SaveItemsScan == save_items_diff(ScanSnapshots, ScanElapsed, Skew)

\* generate_grocery_list is entered (line 1006)
GenerateGroceryList ==
    /\ pc = "idle"
    /\ pc' = "recommend"
    /\ UNCHANGED <<clock, inventory, consumption_history, consumption_patterns,
                   new_items, timestamp, old_inventory, diff, upd_timestamp,
                   result, nsaves, patterns_at_call>>
    /\ qty_unchanged
    /\ db_unchanged
    /\ rec_unchanged

NextScan ==
    \/ SaveItemsScan
    \/ SaveItemsWrite
    \/ SaveItemsFail
    \/ GenerateGroceryList
    \/ GetSmartRecommendations

SpecScan == InitScan /\ [][NextScan]_vars

(***************************************************************************)
(* DatabaseStateMachine.connect and get_client, called from several        *)
(* threads; one step per statement that reads or writes a shared field     *)
(***************************************************************************)
\* str(e) of the exception raised by the factory or by server_info
Timeout == <<"t", "i", "m", "e", "o", "u", "t">>

Errors == {<<>>, Timeout}

inventory_unchanged ==
    UNCHANGED <<clock, inventory, consumption_history, consumption_patterns,
                pc, new_items, timestamp, old_inventory, diff, upd_timestamp,
                result, nsaves, patterns_at_call, quantity_str, quantity_val,
                threshold_date, recommendations>>

\* __init__, lines 35-40
InitDb ==
    /\ clock = 0
    /\ inventory = <<>>
    /\ consumption_history = <<>>
    /\ consumption_patterns = <<>>
    /\ pc = "idle"
    /\ new_items = <<>>
    /\ timestamp = NoTime
    /\ old_inventory = <<>>
    /\ diff = EmptyDiff
    /\ upd_timestamp = NoTime
    /\ result = ZeroResult
    /\ nsaves = 0
    /\ patterns_at_call = <<>>
    /\ quantity_str = NoneVal
    /\ quantity_val = RatOne
    /\ threshold_date = NoTime
    /\ recommendations = <<>>
    /\ state = "DISCONNECTED"
    /\ client = NoneVal
    /\ connection_error = NoneVal
    /\ lock = 0
    /\ thread = [t \in Threads |-> NoCall]
    /\ returned = {}
    /\ invocations = 0
    /\ calls = 0

at(t, label) == thread[t].pc = label

goto(t, label) == thread' = [thread EXCEPT ![t].pc = label]

\* connect returns to its caller: the thread, or line 65 of get_client
connect_returns(t) ==
    thread' = [thread EXCEPT ![t] = IF thread[t].op = "get_client"
                                    THEN [@ EXCEPT !.pc = "g65"]
                                    ELSE NoCall]

\* a thread calls connect()
CallConnect(t) ==
    /\ at(t, "idle")
    /\ calls < MaxCalls
    /\ calls' = calls + 1
    /\ thread' = [thread EXCEPT ![t] = [pc |-> "c43", op |-> "connect",
                                        e |-> NoneVal]]
    /\ UNCHANGED <<state, client, connection_error, lock, returned,
                   invocations>>
    /\ inventory_unchanged

\* a thread calls get_client()
CallGetClient(t) ==
    /\ at(t, "idle")
    /\ calls < MaxCalls
    /\ calls' = calls + 1
    /\ thread' = [thread EXCEPT ![t] = [pc |-> "g62", op |-> "get_client",
                                        e |-> NoneVal]]
    /\ UNCHANGED <<state, client, connection_error, lock, returned,
                   invocations>>
    /\ inventory_unchanged

\* lines 43-44: the check outside the lock
ConnectCheck(t) ==
    /\ at(t, "c43")
    /\ IF state = "CONNECTED" THEN connect_returns(t) ELSE goto(t, "c46")
    /\ UNCHANGED <<state, client, connection_error, lock, returned,
                   invocations, calls>>
    /\ inventory_unchanged

\* line 46: with self._lock
AcquireLock(t) ==
    /\ at(t, "c46")
    /\ lock = 0
    /\ lock' = t
    /\ goto(t, "c47")
    /\ UNCHANGED <<state, client, connection_error, returned, invocations,
                   calls>>
    /\ inventory_unchanged

\* LockedCheck without the test of line 47
LockedCheckSkipped(t) ==
    /\ at(t, "c47")
    /\ goto(t, "c51")
    /\ invocations' = invocations + 1
    /\ UNCHANGED <<state, client, connection_error, lock, returned, calls>>
    /\ inventory_unchanged

\* line 47: the check inside the lock; line 51 calls the factory
LockedCheck(t) ==
    /\ at(t, "c47")
    /\ IF state = "CONNECTED"
       THEN goto(t, "c48") /\ invocations' = invocations
       ELSE goto(t, "c51") /\ invocations' = invocations + 1
    /\ UNCHANGED <<state, client, connection_error, lock, returned, calls>>
    /\ inventory_unchanged

\* line 48: return from inside the with block, which releases the lock
LockedReturn(t) ==
    /\ at(t, "c48")
    /\ lock' = 0
    /\ connect_returns(t)
    /\ UNCHANGED <<state, client, connection_error, returned, invocations,
                   calls>>
    /\ inventory_unchanged

\* line 51: the factory returns a new client, which is assigned
FactoryReturns(t) ==
    /\ at(t, "c51")
    /\ client' = MongoClient(invocations)
    /\ goto(t, "c52")
    /\ UNCHANGED <<state, connection_error, lock, returned, invocations,
                   calls>>
    /\ inventory_unchanged

\* line 51: the factory raises
FactoryRaises(t) ==
    /\ at(t, "c51")
    /\ \E e \in Errors :
          thread' = [thread EXCEPT ![t].pc = "c56", ![t].e = e]
    /\ UNCHANGED <<state, client, connection_error, lock, returned,
                   invocations, calls>>
    /\ inventory_unchanged

\* line 52: server_info answers
ServerInfoReturns(t) ==
    /\ at(t, "c52")
    /\ goto(t, "c53")
    /\ UNCHANGED <<state, client, connection_error, lock, returned,
                   invocations, calls>>
    /\ inventory_unchanged

\* line 52: server_info raises
ServerInfoRaises(t) ==
    /\ at(t, "c52")
    /\ \E e \in Errors :
          thread' = [thread EXCEPT ![t].pc = "c56", ![t].e = e]
    /\ UNCHANGED <<state, client, connection_error, lock, returned,
                   invocations, calls>>
    /\ inventory_unchanged

\* line 53
SetConnected(t) ==
    /\ at(t, "c53")
    /\ state' = "CONNECTED"
    /\ goto(t, "c54")
    /\ UNCHANGED <<client, connection_error, lock, returned, invocations,
                   calls>>
    /\ inventory_unchanged

\* line 54
ClearError(t) ==
    /\ at(t, "c54")
    /\ connection_error' = NoneVal
    /\ goto(t, "c55")
    /\ UNCHANGED <<state, client, lock, returned, invocations, calls>>
    /\ inventory_unchanged

\* the with block of line 46 is left after line 54: the lock is released
LeaveLock(t) ==
    /\ at(t, "c55")
    /\ lock' = 0
    /\ connect_returns(t)
    /\ UNCHANGED <<state, client, connection_error, returned, invocations,
                   calls>>
    /\ inventory_unchanged

\* line 56
SetError(t) ==
    /\ at(t, "c56")
    /\ state' = "ERROR"
    /\ goto(t, "c57")
    /\ UNCHANGED <<client, connection_error, lock, returned, invocations,
                   calls>>
    /\ inventory_unchanged

\* ClearClient without the assignment of line 57
ClearClientSkipped(t) ==
    /\ at(t, "c57")
    /\ goto(t, "c58")
    /\ UNCHANGED <<state, client, connection_error, lock, returned,
                   invocations, calls>>
    /\ inventory_unchanged

\* line 57
ClearClient(t) ==
    /\ at(t, "c57")
    /\ client' = NoneVal
    /\ goto(t, "c58")
    /\ UNCHANGED <<state, connection_error, lock, returned, invocations,
                   calls>>
    /\ inventory_unchanged

\* line 58
StoreError(t) ==
    /\ at(t, "c58")
    /\ connection_error' = thread[t].e
    /\ goto(t, "c59")
    /\ UNCHANGED <<state, client, lock, returned, invocations, calls>>
    /\ inventory_unchanged

\* line 59: DatabaseConnectionError leaves the with block, connect and, when
\* get_client called it, get_client
RaiseConnectionError(t) ==
    /\ at(t, "c59")
    /\ lock' = 0
    /\ thread' = [thread EXCEPT ![t] = NoCall]
    /\ UNCHANGED <<state, client, connection_error, returned, invocations,
                   calls>>
    /\ inventory_unchanged

\* lines 62-63
GetClientCheck(t) ==
    /\ at(t, "g62")
    /\ IF state # "CONNECTED" THEN goto(t, "c43") ELSE goto(t, "g65")
    /\ UNCHANGED <<state, client, connection_error, lock, returned,
                   invocations, calls>>
    /\ inventory_unchanged

\* lines 65-68
GetClientErrorCheck(t) ==
    /\ at(t, "g65")
    /\ IF state = "ERROR"
       THEN thread' = [thread EXCEPT ![t] = NoCall]
       ELSE goto(t, "g70")
    /\ UNCHANGED <<state, client, connection_error, lock, returned,
                   invocations, calls>>
    /\ inventory_unchanged

\* line 70
GetClientReturn(t) ==
    /\ at(t, "g70")
    /\ returned' = returned \cup {client}
    /\ thread' = [thread EXCEPT ![t] = NoCall]
    /\ UNCHANGED <<state, client, connection_error, lock, invocations, calls>>
    /\ inventory_unchanged

NextDb ==
    \E t \in Threads :
        \/ CallConnect(t)
        \/ CallGetClient(t)
        \/ ConnectCheck(t)
        \/ AcquireLock(t)
        \/ LockedCheck(t)
        \/ LockedReturn(t)
        \/ FactoryReturns(t)
        \/ FactoryRaises(t)
        \/ ServerInfoReturns(t)
        \/ ServerInfoRaises(t)
        \/ SetConnected(t)
        \/ ClearError(t)
        \/ LeaveLock(t)
        \/ SetError(t)
        \/ ClearClient(t)
        \/ StoreError(t)
        \/ RaiseConnectionError(t)
        \/ GetClientCheck(t)
        \/ GetClientErrorCheck(t)
        \/ GetClientReturn(t)

SpecDb == InitDb /\ [][NextDb]_vars

(***************************************************************************)
(* Properties of _compute_inventory_diff (SpecDiff)                        *)
(***************************************************************************)
Range(f) == {f[i] : i \in DOMAIN f}

same_identity(x, y) ==
    Lower(x.name) = Lower(y.name) /\ Lower(x.category) = Lower(y.category)

identity_of(x) == <<Lower(x.name), Lower(x.category)>>

union_keys == {identity_of(old_inventory[i]) : i \in DOMAIN old_inventory} \cup
              {identity_of(new_items[i]) : i \in DOMAIN new_items}

bucket_items == diff.added \o diff.removed \o diff.changed \o diff.unchanged

\* the last item of inv with identity key k
last_with_key(inv, k) ==
    inv[CHOOSE i \in DOMAIN inv :
            /\ identity_of(inv[i]) = k
            /\ \A j \in DOMAIN inv : j > i => identity_of(inv[j]) # k]

has_key(inv, k) == \E i \in DOMAIN inv : identity_of(inv[i]) = k

\* C1: every identity key of the union of the two snapshots is the key of
\* exactly one entry of the four buckets taken together, and every bucket
\* entry has a key of the union.
C1_DiffPartition ==
    pc = "diffed" =>
        /\ \A k \in union_keys :
              Cardinality({i \in DOMAIN bucket_items :
                              identity_of(bucket_items[i]) = k}) = 1
        /\ \A i \in DOMAIN bucket_items : identity_of(bucket_items[i]) \in union_keys

C1_Witness ==
    /\ pc = "diffed"
    /\ diff.added # <<>>
    /\ diff.removed # <<>>
    /\ diff.changed # <<>>

C3_ChangedIffQuantityDiffers ==
    pc = "diffed" =>
        \A k \in union_keys :
            (has_key(old_inventory, k) /\ has_key(new_items, k)) =>
                LET o == last_with_key(old_inventory, k)
                    n == last_with_key(new_items, k)
                    oq == extract_quantity(IF o.quantity = NoneVal THEN <<"1">>
                                           ELSE o.quantity)
                    nq == extract_quantity(IF n.quantity = NoneVal THEN <<"1">>
                                           ELSE n.quantity)
                    ch == {i \in DOMAIN diff.changed :
                              identity_of(diff.changed[i]) = k}
                    un == {i \in DOMAIN diff.unchanged :
                              identity_of(diff.unchanged[i]) = k}
                IN  IF oq # nq
                    THEN /\ un = {}
                         /\ \A i \in ch :
                               /\ diff.changed[i].name = n.name
                               /\ diff.changed[i].category = n.category
                               /\ diff.changed[i].quantity = n.quantity
                               /\ diff.changed[i].quantity_diff = RatSub(nq, oq)
                               /\ diff.changed[i].quantity_diff # RatZero
                         /\ Cardinality(ch) = 1
                    ELSE /\ ch = {}
                         /\ Cardinality(un) = 1
                         /\ \A i \in un : diff.unchanged[i] = n

C3_Witness ==
    /\ pc = "diffed"
    /\ \E i \in DOMAIN diff.changed :
          RatLess(diff.changed[i].quantity_diff, RatZero)
    /\ \E i \in DOMAIN diff.unchanged, j \in DOMAIN old_inventory :
          /\ same_identity(diff.unchanged[i], old_inventory[j])
          /\ diff.unchanged[i].quantity # old_inventory[j].quantity

\* C4 as stated: diffing a list against an identical copy gives empty
\* added, removed and changed, and every item of the list is in unchanged.
C4_Original ==
    (pc = "diffed" /\ old_inventory = new_items) =>
        /\ diff.added = <<>>
        /\ diff.removed = <<>>
        /\ diff.changed = <<>>
        /\ \A i \in DOMAIN new_items : new_items[i] \in Range(diff.unchanged)

\* C4 amended: diffing a list against an identical copy gives empty added,
\* removed and changed, and unchanged holds, for every identity key of the
\* list, the last item with that key and nothing else.
C4_NoOpDiff ==
    (pc = "diffed" /\ old_inventory = new_items) =>
        /\ diff.added = <<>>
        /\ diff.removed = <<>>
        /\ diff.changed = <<>>
        /\ \A i \in DOMAIN new_items :
              (\A j \in DOMAIN new_items :
                    j > i => ~same_identity(new_items[i], new_items[j]))
              => new_items[i] \in Range(diff.unchanged)
        /\ Len(diff.unchanged) =
              Cardinality({identity_of(new_items[i]) : i \in DOMAIN new_items})

C4_Witness ==
    /\ pc = "diffed"
    /\ old_inventory = new_items
    /\ Len(new_items) = 2
    /\ same_identity(new_items[1], new_items[2])
    /\ new_items[1] # new_items[2]
    /\ diff.unchanged = <<new_items[2]>>

\* the positions of inv whose item is followed by an item of the same key
shadowed(inv) ==
    {i \in DOMAIN inv :
        \E j \in DOMAIN inv : j > i /\ identity_of(inv[j]) = identity_of(inv[i])}

quantity_value(item) ==
    extract_quantity(IF item.quantity = NoneVal THEN <<"1">> ELSE item.quantity)

\* C23: when a snapshot holds several items of one identity key, the bucket
\* entry of that key is built from the last of them in list order: added and
\* unchanged entries are the last new item, a changed entry carries its
\* name, category and quantity and the difference between the last new and
\* the last old quantity, a removed entry is the last old item; the key has
\* one bucket entry, so the earlier duplicates appear nowhere.
C23_LastWriteWins ==
    pc = "diffed" =>
        /\ \A j \in DOMAIN new_items \ shadowed(new_items) :
              \A e \in DOMAIN bucket_items :
                 identity_of(bucket_items[e]) = identity_of(new_items[j]) =>
                    /\ bucket_items[e].name = new_items[j].name
                    /\ bucket_items[e].category = new_items[j].category
                    /\ bucket_items[e].quantity = new_items[j].quantity
                    /\ \A f \in DOMAIN bucket_items :
                          identity_of(bucket_items[f]) =
                              identity_of(bucket_items[e]) => f = e
                    /\ \A o \in DOMAIN old_inventory \ shadowed(old_inventory) :
                          identity_of(old_inventory[o]) =
                              identity_of(new_items[j]) =>
                             IF quantity_value(new_items[j]) =
                                    quantity_value(old_inventory[o])
                             THEN \E u \in DOMAIN diff.unchanged :
                                     diff.unchanged[u] = new_items[j]
                             ELSE \E c \in DOMAIN diff.changed :
                                     /\ identity_of(diff.changed[c]) =
                                            identity_of(new_items[j])
                                     /\ diff.changed[c].quantity_diff =
                                            RatSub(quantity_value(new_items[j]),
                                                   quantity_value(old_inventory[o]))
        /\ \A o \in DOMAIN old_inventory \ shadowed(old_inventory) :
              (\A j \in DOMAIN new_items :
                  identity_of(new_items[j]) # identity_of(old_inventory[o]))
              => /\ \E r \in DOMAIN diff.removed :
                       diff.removed[r] = old_inventory[o]
                 /\ \A r \in DOMAIN diff.removed :
                       identity_of(diff.removed[r]) =
                           identity_of(old_inventory[o])
                       => diff.removed[r] = old_inventory[o]

\* a duplicated key in the new snapshot whose first item equals the old
\* quantity and whose last item does not
C23_Witness ==
    /\ pc = "diffed"
    /\ \E i, j \in DOMAIN new_items, o \in DOMAIN old_inventory :
          /\ i < j
          /\ identity_of(new_items[i]) = identity_of(new_items[j])
          /\ identity_of(old_inventory[o]) = identity_of(new_items[j])
          /\ quantity_value(new_items[i]) = quantity_value(old_inventory[o])
          /\ quantity_value(new_items[j]) # quantity_value(old_inventory[o])
          /\ \E c \in DOMAIN diff.changed :
                diff.changed[c].quantity = new_items[j].quantity

(***************************************************************************)
(* Properties of _extract_quantity (SpecQty)                               *)
(***************************************************************************)
\* value of the numeral [0-9]+(\.[0-9]+)? that starts at the first digit of s
first_numeral(s) ==
    LET p == CHOOSE i \in 1..Len(s) :
                 s[i] \in Digits /\ \A j \in 1..(i - 1) : s[j] \notin Digits
        e == CHOOSE i \in p..Len(s) :
                 /\ \A j \in p..i : s[j] \in Digits
                 /\ (i = Len(s) \/ s[i + 1] \notin Digits)
        hasfrac == e + 2 <= Len(s) /\ s[e + 1] = "." /\ s[e + 2] \in Digits
        f == CHOOSE i \in (e + 2)..Len(s) :
                 /\ \A j \in (e + 2)..i : s[j] \in Digits
                 /\ (i = Len(s) \/ s[i + 1] \notin Digits)
    IN  IF hasfrac
        THEN Rat(DecVal(SubSeq(s, p, e)) * Pow10(f - e - 1)
                     + DecVal(SubSeq(s, e + 2, f)), Pow10(f - e - 1))
        ELSE Rat(DecVal(SubSeq(s, p, e)), 1)

has_digit(s) == s # NoneVal /\ \E i \in DOMAIN s : s[i] \in Digits

\* C5: _extract_quantity returns the value of the first numeral of the text,
\* and 1.0 for None, the empty text and a text without a numeral; "" , None
\* and "abc" give 1.0, "2 bottles" gives 2.0, "0.5 kg" gives 0.5.
C5_ExtractQuantity ==
    pc = "extracted" =>
        /\ ~has_digit(quantity_str) => quantity_val = <<1, 1>>
        /\ has_digit(quantity_str) => quantity_val = first_numeral(quantity_str)
        /\ quantity_str = TwoBottles => quantity_val = <<2, 1>>
        /\ quantity_str = HalfKg => quantity_val = <<1, 2>>
        /\ quantity_str \in {<<>>, NoneVal, Abc} => quantity_val = <<1, 1>>

C5_Witness ==
    /\ pc = "extracted"
    /\ quantity_str = HalfKg
    /\ quantity_val = <<1, 2>>

(***************************************************************************)
(* Properties of the consumption tracker (Spec)                            *)
(***************************************************************************)
history_of(patterns, k) ==
    IF k \in DOMAIN patterns THEN patterns[k].history ELSE <<>>

is_prefix(a, b) == Len(a) <= Len(b) /\ SubSeq(b, 1, Len(a)) = a

\* lower-case names of the items of d that the tracker counts as consumed
consumed_names(d) ==
    {Lower(d.removed[i].name) : i \in DOMAIN d.removed} \cup
    {Lower(d.changed[i].name) :
        i \in {j \in DOMAIN d.changed :
                  RatLess(d.changed[j].quantity_diff, RatZero)}}

\* number of removed and reduced items of d with lower-case name k
consumed_count(d, k) ==
    Cardinality({i \in DOMAIN d.removed : Lower(d.removed[i].name) = k}) +
    Cardinality({i \in DOMAIN d.changed :
                    /\ Lower(d.changed[i].name) = k
                    /\ RatLess(d.changed[i].quantity_diff, RatZero)})

\* C6: the pattern update appends, for every removed item, the record
\* {timestamp: now, action: consumed, quantity: item quantity} to the history
\* of the item's lower-case name, keeps the earlier records, sets
\* last_consumed to now, and a pattern entry that was absent starts with an
\* empty history and rate 0.
C6_RemovedRecorded ==
    [][(pc = "idle" /\ pc' = "write") =>
        \A i \in DOMAIN diff'.removed :
            LET it == diff'.removed[i]
                k == Lower(it.name)
                hb == history_of(consumption_patterns, k)
                ha == history_of(consumption_patterns', k)
                appended == (Len(hb) + 1)..Len(ha)
            IN  /\ k \in DOMAIN consumption_patterns'
                /\ is_prefix(hb, ha)
                /\ Len(ha) = Len(hb) + consumed_count(diff', k)
                /\ \E j \in appended :
                      /\ ha[j].action = "consumed"
                      /\ ha[j].timestamp = upd_timestamp'
                      /\ ha[j].quantity = it.quantity
                /\ consumption_patterns'[k].last_consumed = upd_timestamp'
                /\ k \notin DOMAIN consumption_patterns =>
                      consumption_patterns'[k].consumption_rate = RatZero
    ]_vars

C6_Witness ==
    /\ pc = "write"
    /\ \E i \in DOMAIN diff.removed :
          LET k == Lower(diff.removed[i].name)
          IN  /\ k \in DOMAIN patterns_at_call
              /\ patterns_at_call[k].last_consumed < upd_timestamp
              /\ Len(consumption_patterns[k].history) =
                     Len(patterns_at_call[k].history) + 1

\* C7: over one save, every changed item with quantity_diff < 0 adds exactly
\* one record to the history of its ingredient, a partial_consumed record
\* with quantity |quantity_diff|, and last_consumed is that record's
\* timestamp.
C7_OneRecordPerReduction ==
    [][(pc = "write" /\ pc' = "idle") =>
        \A i \in DOMAIN diff.changed :
            RatLess(diff.changed[i].quantity_diff, RatZero) =>
                LET k == Lower(diff.changed[i].name)
                    hb == history_of(patterns_at_call, k)
                    ha == history_of(consumption_patterns', k)
                IN  /\ Len(ha) = Len(hb) + consumed_count(diff, k)
                    /\ ha[Len(ha)].action = "partial_consumed"
                    /\ ha[Len(ha)].quantity =
                           Float(RatAbs(diff.changed[i].quantity_diff))
                    /\ consumption_patterns'[k].last_consumed =
                           ha[Len(ha)].timestamp
    ]_vars

\* C8: in a save whose diff holds a changed item with quantity_diff > 0,
\* every ingredient that is not removed or reduced in that save keeps its
\* pattern: no entry is created, and history, last_consumed and
\* consumption_rate are unchanged.
C8_RestockNotRecorded ==
    [][(pc' = "write" \/ pc = "write") =>
        LET d == IF pc = "write" THEN diff ELSE diff'
        IN  (\E i \in DOMAIN d.changed :
                 RatLess(RatZero, d.changed[i].quantity_diff)) =>
            /\ \A i \in DOMAIN d.changed :
                  (/\ RatLess(RatZero, d.changed[i].quantity_diff)
                   /\ Lower(d.changed[i].name) \notin consumed_names(d))
                  => /\ Lower(d.changed[i].name) \in DOMAIN consumption_patterns'
                        <=> Lower(d.changed[i].name) \in DOMAIN consumption_patterns
            /\ \A k \in DOMAIN consumption_patterns' :
                  k \notin consumed_names(d) =>
                      /\ k \in DOMAIN consumption_patterns
                      /\ consumption_patterns'[k] = consumption_patterns[k]
    ]_vars

C8_Witness ==
    /\ pc = "write"
    /\ consumed_names(diff) = {}
    /\ \E i \in DOMAIN diff.changed : RatLess(RatZero, diff.changed[i].quantity_diff)
    /\ \E k \in DOMAIN consumption_patterns :
          /\ consumption_patterns[k].consumption_rate # RatZero
          /\ \E i \in 1..(Len(consumption_patterns[k].history) - 1) :
                consumption_patterns[k].history[i + 1].timestamp <=
                    consumption_patterns[k].history[i].timestamp

\* sum of the positive gaps of h from position i on
RECURSIVE positive_gap_sum(_, _)
positive_gap_sum(h, i) ==
    IF i >= Len(h) THEN 0
    ELSE (IF h[i + 1].timestamp > h[i].timestamp
          THEN h[i + 1].timestamp - h[i].timestamp ELSE 0)
         + positive_gap_sum(h, i + 1)

positive_gaps(h) ==
    {i \in 1..(Len(h) - 1) : h[i + 1].timestamp > h[i].timestamp}

\* C9: after the pattern update, a tracked ingredient with at least 2
\* records and at least one positive gap between consecutive records has
\* consumption_rate = 86400 / (mean of the positive gaps); events at t,
\* t + 86400, t + 172800 give the rate 1.
C9_RateFromPositiveGaps ==
    pc = "write" =>
        \A k \in DOMAIN consumption_patterns :
            LET h == consumption_patterns[k].history
                rate == consumption_patterns[k].consumption_rate
            IN  /\ (Len(h) >= 2 /\ positive_gaps(h) # {}) =>
                      rate = Rat(86400 * Cardinality(positive_gaps(h)),
                                 positive_gap_sum(h, 1))
                /\ (/\ Len(h) = 3
                    /\ h[2].timestamp = h[1].timestamp + 86400
                    /\ h[3].timestamp = h[1].timestamp + 172800)
                   => rate = <<1, 1>>

C9_Witness ==
    /\ pc = "write"
    /\ \E k \in DOMAIN consumption_patterns :
          LET h == consumption_patterns[k].history
          IN  /\ Len(h) = 3
              /\ h[2].timestamp = h[1].timestamp + 86400
              /\ h[3].timestamp = h[1].timestamp + 172800
              /\ consumption_patterns[k].consumption_rate = <<1, 1>>

\* C10: an ingredient whose history has fewer than 2 records has
\* consumption_rate 0.
C10_FewRecordsRateZero ==
    \A k \in DOMAIN consumption_patterns :
        Len(consumption_patterns[k].history) < 2 =>
            consumption_patterns[k].consumption_rate = RatZero

C10_Witness ==
    /\ pc = "idle"
    /\ nsaves >= 2
    /\ \E k \in DOMAIN consumption_patterns :
          Len(consumption_patterns[k].history) = 1
    /\ \E k \in DOMAIN consumption_patterns :
          consumption_patterns[k].consumption_rate # RatZero

\* C16: when, after the pattern update, an ingredient's history has 2 or
\* more records and no positive gap between consecutive records (equal or
\* decreasing timestamps), its consumption_rate is the one it had before the
\* update (0 for an entry the update created), and the update runs to its end.
C16_NoPositiveGapKeepsRate ==
    [][(pc = "idle" /\ nsaves' = nsaves + 1 /\ new_items' # <<>>) =>
        /\ pc' = "write"
        /\ \A k \in DOMAIN consumption_patterns' :
              LET h == consumption_patterns'[k].history
              IN  (/\ Len(h) >= 2
                   /\ \A i \in 1..(Len(h) - 1) :
                         h[i + 1].timestamp <= h[i].timestamp)
                  => consumption_patterns'[k].consumption_rate =
                         IF k \in DOMAIN consumption_patterns
                         THEN consumption_patterns[k].consumption_rate
                         ELSE <<0, 1>>
    ]_vars

C16_Witness ==
    /\ pc = "write"
    /\ \E k \in DOMAIN consumption_patterns :
          LET h == consumption_patterns[k].history
          IN  /\ Len(h) >= 2
              /\ \A i \in 1..(Len(h) - 1) : h[i + 1].timestamp <= h[i].timestamp
              /\ \E i \in 1..(Len(h) - 1) : h[i + 1].timestamp < h[i].timestamp
              /\ consumption_patterns[k].consumption_rate = <<0, 1>>

\* C17: a save appends no record to a history after the rate recomputation
\* of that save: from the end of the pattern update to the return of
\* save_items every history stays as the recomputation saw it.
C17_NoAppendAfterRecompute ==
    [][(pc = "write" /\ pc' = "idle") =>
        /\ DOMAIN consumption_patterns' = DOMAIN consumption_patterns
        /\ \A k \in DOMAIN consumption_patterns :
              consumption_patterns'[k].history = consumption_patterns[k].history
    ]_vars

\* C18: over every step, each pattern entry is still there afterwards and
\* its history before the step is the beginning of its history after the
\* step: records are only added at the end, never changed, moved or dropped.
C18_HistoryAppendOnly ==
    [][\A k \in DOMAIN consumption_patterns :
          /\ k \in DOMAIN consumption_patterns'
          /\ LET hb == consumption_patterns[k].history
                 ha == consumption_patterns'[k].history
             IN  /\ Len(hb) <= Len(ha)
                 /\ \A i \in 1..Len(hb) : ha[i] = hb[i]
    ]_vars

C18_Witness ==
    /\ pc = "idle"
    /\ nsaves >= 2
    /\ \E k \in DOMAIN consumption_patterns :
          LET h == consumption_patterns[k].history
          IN  /\ Len(h) >= 3
              /\ h[1].action = "consumed"
              /\ h[Len(h)].action = "partial_consumed"
              /\ h[Len(h)].timestamp >= h[1].timestamp + 86400

\* the records that h holds behind its first n records
records_after(h, n) == SubSeq(h, n + 1, Len(h))

\* C19: when a save returns, the records it appended to the in-memory
\* histories, the records it appended to the persisted consumption_history
\* and the last_seen fields it wrote all carry one and the same timestamp;
\* hence, within one history, no record of the save is earlier than a record
\* the save appended before it.
C19_OneTimestampPerSave ==
    [][(pc = "write" /\ pc' = "idle") =>
        LET persisted == records_after(consumption_history',
                                       Len(consumption_history))
            in_memory(k) ==
                records_after(consumption_patterns'[k].history,
                              Len(history_of(patterns_at_call, k)))
        IN  /\ \A i \in DOMAIN persisted : persisted[i].timestamp = timestamp
            /\ \A i \in DOMAIN inventory' :
                  (\A j \in DOMAIN inventory : inventory[j] # inventory'[i])
                  => inventory'[i].last_seen = timestamp
            /\ \A k \in DOMAIN consumption_patterns' :
                  /\ \A i \in DOMAIN in_memory(k) :
                        in_memory(k)[i].timestamp = timestamp
                  /\ \A i, j \in DOMAIN in_memory(k) :
                        i < j => in_memory(k)[i].timestamp <=
                                     in_memory(k)[j].timestamp
    ]_vars

\* the persisted record of the removal of item it at time t
removal_record(it, t) ==
    [item_name |-> it.name, category |-> it.category, action |-> "consumed",
     timestamp |-> t]

possible_recommendations(now) ==
    LET current == get_current_inventory(inventory, now)
        threshold == now - 7 * 86400
    IN  {get_smart_recommendations(current, consumption_history,
                                   consumption_patterns, threshold, now, ord) :
            ord \in group_orders(consumption_history, threshold)}

milk_removed_diff ==
    /\ Len(diff.removed) = 1
    /\ diff.removed[1].name = Milk
    /\ diff.removed[1].category = Dairy
    /\ diff.added = <<>>
    /\ diff.changed = <<>>
    /\ diff.unchanged = <<>>

\* C14: with an empty pattern table and the stored inventory
\* [{milk, Dairy, "2"}], save_items of the empty snapshot computes a diff
\* with removed = [milk] and records a consumed event for milk; when that
\* save has written to the database, every recommendation request of the
\* following 7 days returns a recommendation for milk with urgency Medium or
\* Low.
C14_RemovedThenRecommended ==
    [][/\ (/\ pc = "idle"
           /\ nsaves' = nsaves + 1
           /\ new_items' = <<>>
           /\ consumption_patterns = <<>>
           /\ Len(inventory) = 1
           /\ inventory[1].name = Milk
           /\ inventory[1].category = Dairy
           /\ inventory[1].quantity = <<"2">>
           /\ inventory[1].last_seen >= clock - 7 * 86400)
          => /\ pc' = "write"
             /\ milk_removed_diff'
             /\ Milk \in DOMAIN consumption_patterns'
             /\ \E i \in DOMAIN consumption_patterns'[Milk].history :
                   consumption_patterns'[Milk].history[i].action = "consumed"
       /\ (/\ pc = "write"
           /\ pc' = "idle"
           /\ new_items = <<>>
           /\ patterns_at_call = <<>>
           /\ milk_removed_diff
           /\ result'.removed = 1)
          => \A d \in 0..6 :
                \A recs \in possible_recommendations(clock + d * 86400)' :
                   \E j \in DOMAIN recs :
                      /\ recs[j].name = Milk
                      /\ recs[j].category = Dairy
                      /\ recs[j].urgency \in {"Medium", "Low"}
      ]_vars

\* a step of save_items in which every database write succeeded: the
\* handler for failures returns the zero result, and a run of at least one
\* write counts at least one insert, update or removal
save_succeeds ==
    /\ pc = "write"
    /\ pc' = "idle"
    /\ (write_ops(diff) = <<>> \/ result' # ZeroResult)

\* C25: after a successful save of a non-empty snapshot the stored current
\* inventory matches the snapshot: the diff of the same snapshot against it
\* has empty added, removed and changed buckets, so that saving it again
\* records no consumption.
C25_SaveIdempotent ==
    [][save_succeeds =>
        LET current_inventory == get_current_inventory(inventory', clock')
        IN  \A ord \in iteration_orders(current_inventory, new_items) :
               LET d == compute_inventory_diff(current_inventory, new_items,
                                               ord)
               IN  /\ d.added = <<>>
                   /\ d.removed = <<>>
                   /\ d.changed = <<>>]_vars

\* C27: a call of save_items with the empty list returns the zero result at
\* once and leaves the stored inventory, the persisted history and the
\* pattern table as they were.
C27_EmptySnapshotNoEffect ==
    [][(nsaves' = nsaves + 1 /\ new_items' = <<>>) =>
          /\ pc' = "idle"
          /\ result' = [inserted |-> 0, updated |-> 0, removed |-> 0]
          /\ inventory' = inventory
          /\ consumption_history' = consumption_history
          /\ consumption_patterns' = consumption_patterns]_vars

\* all calls so far returned zero, none changed or removed anything at time
\* 0, and the stored inventory still holds two items
C27_Witness ==
    /\ pc = "idle"
    /\ nsaves = MaxSaves
    /\ result = ZeroResult
    /\ Len(inventory) = 2
    /\ consumption_history = <<>>
    /\ consumption_patterns = <<>>
    /\ clock = 0

\* a step of save_items in which a database write raised: there was a write
\* to do and the zero result is returned
save_fails ==
    /\ pc = "write"
    /\ pc' = "idle"
    /\ write_ops(diff) # <<>>
    /\ result' = ZeroResult

\* C28: the step that computes the diff updates the pattern table and writes
\* nothing to the database; when a write then fails the zero result is
\* returned, the pattern table keeps the records of the call, the records
\* pushed to the persisted history stay and so do the removals and the
\* inserts that were applied with them.
C28_PatternsFirstNoRollback ==
    [][/\ (pc = "idle" /\ pc' = "write") =>
             /\ inventory' = inventory
             /\ consumption_history' = consumption_history
             /\ \A k \in consumed_names(diff') :
                   Len(history_of(consumption_patterns', k)) =
                       Len(history_of(consumption_patterns, k)) +
                           consumed_count(diff', k)
       /\ save_fails =>
             /\ consumption_patterns' = consumption_patterns
             /\ \A k \in consumed_names(diff) :
                   Len(history_of(consumption_patterns', k)) =
                       Len(history_of(patterns_at_call, k)) +
                           consumed_count(diff, k)
             /\ is_prefix(consumption_history, consumption_history')
             /\ \A i \in (Len(consumption_history) + 1)..
                             Len(consumption_history') :
                   /\ consumption_history'[i].timestamp = timestamp
                   /\ \E r \in DOMAIN diff.removed :
                         /\ diff.removed[r].name =
                                consumption_history'[i].item_name
                         /\ diff.removed[r].category =
                                consumption_history'[i].category
                         /\ \A j \in DOMAIN inventory' :
                               \/ inventory'[j].name # diff.removed[r].name
                               \/ inventory'[j].category #
                                      diff.removed[r].category
             /\ Len(inventory') + (Len(consumption_history') -
                                       Len(consumption_history))
                    >= Len(inventory)]_vars

\* the only call so far had two items to remove and returned the zero
\* result, and yet the pattern table holds both records, the persisted
\* history holds the record of the first and that item is gone
C28_Witness ==
    /\ pc = "idle"
    /\ nsaves = 1
    /\ result = ZeroResult
    /\ Len(consumption_history) = 1
    /\ Len(history_of(consumption_patterns, Milk)) = 2
    /\ Len(inventory) = 2

(***************************************************************************)
(* Properties of _get_smart_recommendations (SpecRec)                      *)
(***************************************************************************)
\* the inventory that the request read
current_items == get_current_inventory(inventory, threshold_date + 7 * 86400)

\* positions of the consumed records of the 7-day window
window_records ==
    {i \in DOMAIN consumption_history :
        /\ consumption_history[i].timestamp >= threshold_date
        /\ consumption_history[i].action = "consumed"}

\* positions of the recommendations for the group with name n, category c
recs_for(n, c) ==
    {j \in DOMAIN recommendations :
        recommendations[j].name = n /\ recommendations[j].category = c}

\* normalized quantity of the item of the read inventory with identity key k
stock_of(k) ==
    LET it == last_with_key(current_items, k)
    IN  extract_quantity(IF it.quantity = NoneVal THEN <<"1">> ELSE it.quantity)

in_window(n, c) ==
    \E i \in window_records :
        /\ consumption_history[i].item_name = n
        /\ consumption_history[i].category = c

\* C11: a consumed-history group whose identity key is in the current
\* inventory with normalized quantity > 0.5 gives no recommendation, every
\* other group of the window gives exactly one; milk in stock with 0.6 is
\* left out, with 0.4 it is recommended.
C11_StockedNotRecommended ==
    pc = "recommended" =>
        /\ \A i \in window_records :
              LET r == consumption_history[i]
                  k == <<Lower(r.item_name), Lower(r.category)>>
                  n == Cardinality(recs_for(r.item_name, r.category))
              IN  IF has_key(current_items, k) /\ RatLess(<<1, 2>>, stock_of(k))
                  THEN n = 0
                  ELSE n = 1
        /\ \A j \in DOMAIN recommendations :
              in_window(recommendations[j].name, recommendations[j].category)
        /\ (in_window(Milk, Dairy) /\ has_key(current_items, <<Milk, Dairy>>)) =>
              /\ stock_of(<<Milk, Dairy>>) = <<3, 5>> => recs_for(Milk, Dairy) = {}
              /\ stock_of(<<Milk, Dairy>>) = <<2, 5>> => recs_for(Milk, Dairy) # {}

C11_Witness ==
    /\ pc = "recommended"
    /\ has_key(current_items, <<Milk, Dairy>>)
    /\ stock_of(<<Milk, Dairy>>) = <<3, 5>>
    /\ in_window(Milk, Dairy)
    /\ in_window(Egg, Dairy)
    /\ recs_for(Milk, Dairy) = {}
    /\ recs_for(Egg, Dairy) # {}

\* latest timestamp of the window records of the group (n, c)
latest_consumed(n, c) ==
    LET ts == {consumption_history[i].timestamp :
                  i \in {j \in window_records :
                            /\ consumption_history[j].item_name = n
                            /\ consumption_history[j].category = c}}
    IN  CHOOSE t \in ts : \A u \in ts : u <= t

tracked_rate(n) ==
    IF Lower(n) \in DOMAIN consumption_patterns
    THEN consumption_patterns[Lower(n)].consumption_rate
    ELSE <<0, 1>>

\* C12: a recommendation carries the rate of the pattern table (0 when the
\* ingredient is untracked) and the group's latest consumed timestamp; its
\* urgency is High iff that rate is > 0.3, else Medium iff fewer than 3 whole
\* days lie between that timestamp and the clock read, else Low; the reason
\* is "Frequently used" with High, "Recently consumed" with Medium and
\* "Occasionally used" with Low.
C12_UrgencyClassification ==
    pc = "recommended" =>
        \A j \in DOMAIN recommendations :
            LET x == recommendations[j]
                rate == tracked_rate(x.name)
                last == latest_consumed(x.name, x.category)
                high == rate[1] * 10 > 3 * rate[2]
                recent == clock - last < 3 * 86400
            IN  /\ x.consumption_rate = rate
                /\ x.last_consumed = last
                /\ x.urgency \in {"High", "Medium", "Low"}
                /\ x.urgency = "High" <=> high
                /\ x.urgency = "Medium" <=> (~high /\ recent)
                /\ x.urgency = "Low" <=> (~high /\ ~recent)
                /\ x.urgency = "High" <=> x.reason.text = "Frequently used"
                /\ x.urgency = "Medium" <=> x.reason.text = "Recently consumed"
                /\ x.urgency = "Low" <=> x.reason.text = "Occasionally used"

C12_Witness ==
    /\ pc = "recommended"
    /\ \E j \in DOMAIN recommendations : recommendations[j].urgency = "High"
    /\ \E j \in DOMAIN recommendations :
          /\ recommendations[j].urgency = "Medium"
          /\ recommendations[j].consumption_rate = <<3, 10>>
    /\ \E j \in DOMAIN recommendations :
          /\ recommendations[j].urgency = "Low"
          /\ clock - recommendations[j].last_consumed = 3 * 86400

urgency_tier(x) ==
    CASE x.urgency = "High" -> 0 [] x.urgency = "Medium" -> 1
      [] x.urgency = "Low" -> 2

\* C13: the returned list has every High before every Medium before every
\* Low and, within one urgency, non-increasing consumption_rate; candidates
\* A (rate 0.5, High), B (rate 0.1, Medium), C (rate 0.1, Low) come out as
\* [A, B, C] for every order in which the groups arrive.
C13_SortedByUrgencyThenRate ==
    pc = "recommended" =>
        /\ \A i, j \in DOMAIN recommendations :
              i < j =>
                  LET x == recommendations[i]
                      y == recommendations[j]
                  IN  /\ urgency_tier(x) <= urgency_tier(y)
                      /\ urgency_tier(x) = urgency_tier(y) =>
                            x.consumption_rate[1] * y.consumption_rate[2] >=
                                y.consumption_rate[1] * x.consumption_rate[2]
        /\ (/\ Len(recommendations) = 3
            /\ \E a, b, c \in DOMAIN recommendations :
                  /\ recommendations[a].urgency = "High"
                  /\ recommendations[a].consumption_rate = <<1, 2>>
                  /\ recommendations[b].urgency = "Medium"
                  /\ recommendations[b].consumption_rate = <<1, 10>>
                  /\ recommendations[c].urgency = "Low"
                  /\ recommendations[c].consumption_rate = <<1, 10>>)
           => /\ recommendations[1].urgency = "High"
              /\ recommendations[2].urgency = "Medium"
              /\ recommendations[3].urgency = "Low"

C13_Witness ==
    /\ pc = "recommended"
    /\ Len(recommendations) = 3
    /\ recommendations[1].urgency = "High"
    /\ recommendations[1].consumption_rate = <<1, 2>>
    /\ recommendations[2].urgency = "Medium"
    /\ recommendations[2].consumption_rate = <<1, 10>>
    /\ recommendations[3].urgency = "Low"
    /\ recommendations[3].consumption_rate = <<1, 10>>

\* C21: every recommendation has a persisted record of its name and
\* category with action consumed and a timestamp not more than 7 days before
\* the request; an ingredient of the pattern table without such a record (it
\* was only reduced, or all its removals are older) has no recommendation,
\* whatever its consumption_rate.
C21_OnlyWindowedRemovals ==
    pc = "recommended" =>
        /\ \A j \in DOMAIN recommendations :
              \E i \in DOMAIN consumption_history :
                 /\ consumption_history[i].item_name = recommendations[j].name
                 /\ consumption_history[i].category =
                        recommendations[j].category
                 /\ consumption_history[i].action = "consumed"
                 /\ consumption_history[i].timestamp >= threshold_date
        /\ \A k \in DOMAIN consumption_patterns :
              (\A i \in DOMAIN consumption_history :
                  Lower(consumption_history[i].item_name) = k =>
                      consumption_history[i].timestamp < threshold_date)
              => \A j \in DOMAIN recommendations :
                    Lower(recommendations[j].name) # k

C21_Witness ==
    /\ pc = "recommended"
    /\ recommendations # <<>>
    /\ Veg \in DOMAIN consumption_patterns
    /\ consumption_patterns[Veg].consumption_rate = <<1, 1>>
    /\ \E i \in DOMAIN consumption_history :
          /\ consumption_history[i].item_name = Veg
          /\ consumption_history[i].timestamp < threshold_date
    /\ Milk \in DOMAIN consumption_patterns
    /\ \A i \in DOMAIN consumption_history :
          consumption_history[i].item_name # Milk
    /\ \A j \in DOMAIN recommendations :
          recommendations[j].name \notin {Veg, Milk}

(***************************************************************************)
(* Properties of get_current_inventory (SpecInv)                           *)
(***************************************************************************)
\* number of positions of the list s that hold x
occurrences(s, x) == Cardinality({i \in DOMAIN s : s[i] = x})

is_fresh(it, now) == it.last_seen >= now - 7 * 86400

C24_PatternsSharedByName ==
    /\ pc = "write" =>
          \A i \in DOMAIN diff.removed :
             LET k == Lower(diff.removed[i].name)
             IN  /\ k \in DOMAIN consumption_patterns
                 /\ Len(consumption_patterns[k].history) =
                        Len(history_of(patterns_at_call, k)) +
                            consumed_count(diff, k)
    /\ \A i \in DOMAIN consumption_history :
          \E e \in DOMAIN history_of(consumption_patterns,
                                     Lower(consumption_history[i].item_name)) :
             LET ev == consumption_patterns[
                           Lower(consumption_history[i].item_name)].history[e]
             IN  /\ ev.action = "consumed"
                 /\ ev.timestamp - consumption_history[i].timestamp \in Skew
    /\ pc = "recommended" =>
          \A i, j \in DOMAIN recommendations :
             Lower(recommendations[i].name) = Lower(recommendations[j].name) =>
                /\ recommendations[i].consumption_rate =
                       recommendations[j].consumption_rate
                /\ recommendations[i].consumption_rate =
                       tracked_rate(recommendations[i].name)

\* milk was removed from two categories on different days; both groups are
\* recommended with the rate computed from the two records of the one history
C24_Witness ==
    /\ pc = "recommended"
    /\ \E i, j \in DOMAIN recommendations :
          /\ recommendations[i].name = Milk
          /\ recommendations[j].name = Milk
          /\ recommendations[i].category = Dairy
          /\ recommendations[j].category = Produce
          /\ recommendations[i].consumption_rate # RatZero
          /\ recommendations[i].last_consumed # recommendations[j].last_consumed
    /\ Len(consumption_patterns[Milk].history) = 2
    /\ DOMAIN consumption_patterns = {Milk}

\* the identity keys that every snapshot of ScanSnapshots holds
always_scanned ==
    {k \in UNION {{identity_of(S[i]) : i \in DOMAIN S} : S \in ScanSnapshots} :
        \A S \in ScanSnapshots : has_key(S, k)}

\* C26: with saves 3 days apart, a stored item whose key is in every saved
\* snapshot is in the current inventory that each save reads (line 149).
C26_SeenItemStaysVisible ==
    pc = "write" =>
        \A k \in always_scanned :
            has_key(inventory, k) => has_key(old_inventory, k)

\* C22: the recommendation list holds at most one entry per identity key
\* (lower-case name, lower-case category).
C22_OneRecommendationPerKey ==
    pc = "recommended" =>
        \A i, j \in DOMAIN recommendations :
            identity_of(recommendations[i]) = identity_of(recommendations[j])
            => i = j

(***************************************************************************)
(* Properties of DatabaseStateMachine (SpecDb)                             *)
(***************************************************************************)
\* the threads whose position is inside the with block of line 46
in_locked_section ==
    {t \in Threads :
        thread[t].pc \in {"c47", "c48", "c51", "c52", "c53", "c54", "c55",
                          "c56", "c57", "c58", "c59"}}

\* C29: while no thread is inside the with block of connect, CONNECTED goes
\* with a client and no error, ERROR with no client and an error text,
\* DISCONNECTED with neither; the state is never CONNECTING.
C29_FieldsConsistent ==
    /\ state \in {"DISCONNECTED", "CONNECTED", "ERROR"}
    /\ lock = 0 =>
          /\ state = "CONNECTED" =>
                client # <<"None">> /\ connection_error = <<"None">>
          /\ state = "ERROR" =>
                client = <<"None">> /\ connection_error # <<"None">>
          /\ state = "DISCONNECTED" =>
                client = <<"None">> /\ connection_error = <<"None">>

\* no thread is in the with block and the state is ERROR after two failed
\* attempts, the second with an empty error text; a get_client call has
\* started and will try again
C29_Witness ==
    /\ in_locked_section = {}
    /\ lock = 0
    /\ state = "ERROR"
    /\ connection_error = <<>>
    /\ invocations = 2
    /\ \E t \in Threads : thread[t].pc = "g62"

\* C30: at most one thread is inside the factory (or anywhere in the with
\* block); once the state is CONNECTED it stays CONNECTED, the factory is
\* not called again and the client is not assigned again; everything
\* get_client has returned is one client, not None.
C30_ConnectOnce ==
    /\ [](/\ Cardinality(in_locked_section) <= 1
          /\ Cardinality({t \in Threads : thread[t].pc = "c51"}) <= 1
          /\ Cardinality(returned) <= 1
          /\ <<"None">> \notin returned
          /\ (returned # {} => state = "CONNECTED" /\ returned = {client}))
    /\ [][state = "CONNECTED" =>
             /\ state' = "CONNECTED"
             /\ client' = client
             /\ invocations' = invocations]_vars

\* the second attempt succeeded after a failed one, a thread that waited for
\* the lock found CONNECTED inside it, and get_client has returned
C30_Witness ==
    /\ state = "CONNECTED"
    /\ invocations = 2
    /\ client = <<"MongoClient", 2>>
    /\ returned = {client}
    /\ \E t \in Threads : thread[t].pc = "c48"

====
